---------------------------- MODULE Spec2Model ----------------------------
(***************************************************************************)
(* A model of src/Main.cpp: a chain of pendulum segments, its integration  *)
(* step (computePhysics), the trail of the terminal tip (pathVertices),    *)
(* the mouse callback that appends and removes segments, and the frame     *)
(* loop of main() that sequences them.                                     *)
(*                                                                         *)
(* Numbers.  The program computes in IEEE floats.  Here every float is a   *)
(* fixed-point integer counting units of 1/Scale, products and quotients   *)
(* are rounded to the nearest unit, and sin/cos are a range reduction      *)
(* followed by a Taylor polynomial.  The order of the arithmetic           *)
(* operations is the source's.                                             *)
(*                                                                         *)
(* Indices.  i and lastIdx are the source's 0-based indices; a TLA+        *)
(* sequence is 1-based, so the source's v[i] is v[i + 1] here.             *)
(***************************************************************************)
EXTENDS Integers, Sequences, FiniteSets, TLC

\* ------------------------------------------------------------------------
\* Bounds of the model
\* ------------------------------------------------------------------------

\* The capacity of the trail, in points.  The program sets 2000
\* (Main.cpp:23); every formula below is stated in terms of PATH_LIMIT and
\* the model is explored with a small capacity so that the trail fills up.
PATH_LIMIT == 3

\* Ticks past the PATH_LIMIT that fill the trail (500 at the program's scale).
EXTRA_TICKS == 1

\* The input system delivers at most this many mouse events per poll.
MaxEvents == 2

\* The user stops adding segments at this chain length.
MaxSegments == 3

\* Frames the loop of main() runs: one more than a run of
\* PATH_LIMIT + EXTRA_TICKS ticks, so that a run can start after an edit.
MaxTicks == PATH_LIMIT + EXTRA_TICKS + 1

\* ------------------------------------------------------------------------
\* Fixed-point arithmetic
\* ------------------------------------------------------------------------

Scale == 10 * 10 * 10 * 10

\* n / d rounded to the nearest integer (d > 0).
RoundDiv(n, d) == (n + d \div 2) \div d

\* a * b / Scale rounded to the nearest unit, computed from the whole and
\* the fractional part of b to stay within TLC's integers.
FixMul[a \in Int, b \in Int] ==
    a * (b \div Scale) + RoundDiv(a * (b % Scale), Scale)

\* a * Scale / b rounded to the nearest unit, for b > 0.
FixDiv[a \in Int, b \in Int] ==
    (a \div b) * Scale + RoundDiv((a % b) * Scale, b)

\* float * float
Mul(a, b) == FixMul[a, b]

\* float / float.  A zero divisor would stop TLC with an error: no reachable
\* state divides by zero, every length being INITIAL_LENGTH.
Div(a, b) == IF b > 0 THEN FixDiv[a, b] ELSE FixDiv[0 - a, 0 - b]

G == (981 * Scale) \div 100
INITIAL_LENGTH == (7 * Scale) \div 10
INITIAL_MASS == Scale
dt == Scale \div 100
M_PI == RoundDiv(31415927, 10000000 \div Scale)

\* sin on [0, pi/2], the Taylor polynomial y - y^3/3! + y^5/5! - y^7/7! + y^9/9!
\* in Horner's form.
SinQ[y \in Int] ==
    LET y2 == Mul(y, y)
    IN  Mul(y, Scale - RoundDiv(
            Mul(y2, Scale - RoundDiv(
                Mul(y2, Scale - RoundDiv(
                    Mul(y2, Scale - RoundDiv(y2, 72)), 42)), 20)), 6))

\* sin of an angle r in [0, 2 pi): the quadrant decides the sign and the
\* argument of SinQ.
SinR[r \in Int] ==
    LET HalfPi == M_PI \div 2
        sign == IF r <= M_PI THEN 1 ELSE 0 - 1
        y == IF r <= HalfPi THEN r
             ELSE IF r <= M_PI THEN M_PI - r
             ELSE IF r <= M_PI + HalfPi THEN r - M_PI
             ELSE 2 * M_PI - r
    IN  sign * SinQ[y]

sin(x) == SinR[x % (2 * M_PI)]

cos(x) == sin(x + M_PI \div 2)

\* ------------------------------------------------------------------------
\* State
\* ------------------------------------------------------------------------

VARIABLES
    pendulums,     \* std::vector<glm::vec2>: [x |-> length, y |-> mass]
    theta,         \* std::vector<float>
    omega,         \* std::vector<float>
    pathVertices,  \* std::vector<float>: x0, y0, x1, y1, ...
    pc,            \* where main() is: "physics", "single_path", "render", "poll", "done"
    i,             \* the loop index of computePhysics' for loop (0 outside it)
    events,        \* mouse events dispatched by the current glfwPollEvents
    ticks,         \* calls of computePhysics that have returned (at most MaxTicks)
    \* history variables: they record what the program did and decide nothing
    lastOp,        \* the last operation: "init", "step", "append", "render",
                   \*                     "left", "right", "other", "poll"
    run,           \* ticks since the last append/remove edit
    tipLog,        \* every point pushed onto the trail, in order
    pre,           \* theta and omega as the current step found them
    wTheta,        \* writes of theta[k] by the current step
    wOmega         \* writes of omega[k] by the current step

vars == <<pendulums, theta, omega, pathVertices, pc, i, events, ticks,
          lastOp, run, tipLog, pre, wTheta, wOmega>>

\* ------------------------------------------------------------------------
\* initialize()
\* ------------------------------------------------------------------------

Init ==
    /\ pendulums = <<[x |-> INITIAL_LENGTH, y |-> INITIAL_MASS]>>
    /\ theta = <<Div(M_PI, Scale)>>
    /\ omega = <<Scale \div 2>>
    /\ pathVertices = <<>>
    /\ pc = "physics"
    /\ i = 0
    /\ events = 0
    /\ ticks = 0
    /\ lastOp = "init"
    /\ run = 0
    /\ tipLog = <<>>
    /\ pre = [theta |-> <<Div(M_PI, Scale)>>, omega |-> <<Scale \div 2>>]
    /\ wTheta = <<0>>
    /\ wOmega = <<0>>


\* ------------------------------------------------------------------------
\* computePhysics()
\* ------------------------------------------------------------------------

\* The single pendulum's acceleration: (-G / L1) * sin(theta[0]).
SingleAccel(t, L1) == Mul(Div(0 - G, L1), sin(t))

\* SingleUpdate with explicit Euler: theta advances by the omega the step
\* found.
SingleUpdateExplicit(th, om, pend) ==
    LET L1 == pend[1].x
        a1 == SingleAccel(th[1], L1)
        o1 == om[1] + Mul(a1, dt)
        t1 == th[1] + Mul(om[1], dt)
    IN  [theta |-> [th EXCEPT ![1] = t1], omega |-> [om EXCEPT ![1] = o1]]

\* The single-pendulum branch's update of omega[0] and theta[0].
SingleUpdate(th, om, pend) ==
    LET L1 == pend[1].x
        a1 == SingleAccel(th[1], L1)
        o1 == om[1] + Mul(a1, dt)
        t1 == th[1] + Mul(o1, dt)
    IN  [theta |-> [th EXCEPT ![1] = t1], omega |-> [om EXCEPT ![1] = o1]]

\* a1 and a2 from the velocities, the lengths, the masses and
\* s = sin(deltaTheta), c = cos(deltaTheta), s1 = sin(theta[i]),
\* s2 = sin(theta[i + 1]).
PairAccelOf(o1, o2, L1, M1, L2, M2, s, c, s1, s2) ==
    LET denom1 == Mul(M1 + M2, L1) - Mul(Mul(Mul(M2, L1), c), c)
        denom2 == Mul(Div(L2, L1), denom1)
        a1 == Div(Mul(Mul(Mul(Mul(Mul(M2, L1), o1), o1), s), c)
                  + Mul(Mul(Mul(M2, G), s2), c)
                  + Mul(Mul(Mul(Mul(M2, L2), o2), o2), s)
                  - Mul(Mul(M1 + M2, G), s1),
                  denom1)
        a2 == Div(Mul(Mul(Mul(Mul(Div(0 - L1, L2), o1), o1), s), c)
                  + Mul(Mul(G, s1), c)
                  - Mul(G, s2),
                  denom2)
    IN  [a1 |-> a1, a2 |-> a2]

\* a1 and a2 of the pair whose angles are t1, t2 and velocities o1, o2, with
\* deltaTheta = t2 - t1.
PairAccel(t1, t2, o1, o2, L1, M1, L2, M2) ==
    PairAccelOf(o1, o2, L1, M1, L2, M2, sin(t2 - t1), cos(t2 - t1), sin(t1), sin(t2))

\* Advance with explicit Euler: each theta moves by the omega the pass found,
\* not by the one it has just written.
AdvanceExplicit(th, om, k, acc) ==
    [theta |-> [th EXCEPT ![k + 1] = @ + Mul(om[k + 1], dt),
                          ![k + 2] = @ + Mul(om[k + 2], dt)],
     omega |-> [om EXCEPT ![k + 1] = @ + Mul(acc.a1, dt),
                          ![k + 2] = @ + Mul(acc.a2, dt)]]

\* The four assignments that end a pass: both omegas, then both thetas.
Advance(th, om, k, acc) ==
    LET o1 == om[k + 1] + Mul(acc.a1, dt)
        o2 == om[k + 2] + Mul(acc.a2, dt)
    IN  [theta |-> [th EXCEPT ![k + 1] = @ + Mul(o1, dt), ![k + 2] = @ + Mul(o2, dt)],
         omega |-> [om EXCEPT ![k + 1] = o1, ![k + 2] = o2]]

\* PairUpdate reading segment k as the step found it (pre), not as the pass
\* (k - 1, k) left it.
PairUpdateStale(th, om, pend, k) ==
    Advance([th EXCEPT ![k + 1] = pre.theta[k + 1]],
            [om EXCEPT ![k + 1] = pre.omega[k + 1]], k,
            PairAccel(pre.theta[k + 1], th[k + 2], pre.omega[k + 1], om[k + 2],
                      pend[k + 1].x, pend[k + 1].y, pend[k + 2].x, pend[k + 2].y))

\* One pass of the for loop with i + 1 < pendulums.size(): the pair
\* (k, k + 1) of the source is the pair (k + 1, k + 2) of the sequences.
PairUpdate(th, om, pend, k) ==
    Advance(th, om, k,
            PairAccel(th[k + 1], th[k + 2], om[k + 1], om[k + 2],
                      pend[k + 1].x, pend[k + 1].y, pend[k + 2].x, pend[k + 2].y))

baseX == 0
baseY == Scale \div 2

\* The single branch's tip: baseX + L1 * sin(theta[0]), baseY - L1 * cos(theta[0]).
SingleTip(th, pend) ==
    <<baseX + Mul(pend[1].x, sin(th[1])), baseY - Mul(pend[1].x, cos(th[1]))>>

\* x and y of the multi branch after the passes 0 .. n - 1 of its tip loop.
RECURSIVE TipAfter(_, _, _)
TipAfter(th, pend, n) ==
    IF n = 0 THEN <<baseX, baseY>>
    ELSE LET p == TipAfter(th, pend, n - 1)
         IN  <<p[1] + Mul(pend[n].x, sin(th[n])), p[2] - Mul(pend[n].x, cos(th[n]))>>

\* ChainTip with the loop condition i < lastIdx: the tip of the segment
\* before the last.
ChainTipShort(th, pend) ==
    LET lastIdx == Len(pend) - 1
    IN  TipAfter(th, pend, lastIdx)

\* for (i = 0; i <= lastIdx; ++i) with lastIdx = pendulums.size() - 1.
ChainTip(th, pend) ==
    LET lastIdx == Len(pend) - 1
    IN  TipAfter(th, pend, lastIdx + 1)

\* PushPoint with the test size > PATH_LIMIT * 2.
PushPointLateEvict(path, p) ==
    LET kept == IF Len(path) > PATH_LIMIT * 2
                THEN SubSeq(path, 3, Len(path))
                ELSE path
    IN  kept \o <<p[1], p[2]>>

\* PushPoint erasing the last two floats (end() - 2, end()).
PushPointEvictNewest(path, p) ==
    LET kept == IF Len(path) >= PATH_LIMIT * 2
                THEN SubSeq(path, 1, Len(path) - 2)
                ELSE path
    IN  kept \o <<p[1], p[2]>>

\* The trail after a tick pushes the point p: at PATH_LIMIT points the first
\* two floats are erased first.
PushPoint(path, p) ==
    LET kept == IF Len(path) >= PATH_LIMIT * 2
                THEN SubSeq(path, 3, Len(path))
                ELSE path
    IN  kept \o <<p[1], p[2]>>

\* pendulums.size() < 2: the update of the sole segment.
SingleStep ==
    /\ pc = "physics"
    /\ Len(pendulums) < 2
    /\ LET u == SingleUpdate(theta, omega, pendulums)
       IN  /\ theta' = u.theta
           /\ omega' = u.omega
    /\ wTheta' = [wTheta EXCEPT ![1] = @ + 1]
    /\ wOmega' = [wOmega EXCEPT ![1] = @ + 1]
    /\ pc' = "single_path"
    /\ lastOp' = "step"
    /\ UNCHANGED <<pendulums, pathVertices, i, events, ticks, run, tipLog,
                   pre>>

\* pendulums.size() < 2: the trail update that ends the call.
SinglePath ==
    /\ pc = "single_path"
    /\ LET p == SingleTip(theta, pendulums)
       IN  /\ pathVertices' = PushPoint(pathVertices, p)
           /\ tipLog' = Append(tipLog, p)
    /\ pc' = "render"
    /\ ticks' = ticks + 1
    /\ run' = run + 1
    /\ lastOp' = "append"
    /\ UNCHANGED <<pendulums, theta, omega, i, events, pre, wTheta, wOmega>>

\* A pass of the for loop with i + 1 < pendulums.size().
LoopPair ==
    /\ pc = "physics"
    /\ Len(pendulums) >= 2
    /\ i < Len(pendulums)
    /\ i + 1 < Len(pendulums)
    /\ LET u == PairUpdate(theta, omega, pendulums, i)
       IN  /\ theta' = u.theta
           /\ omega' = u.omega
    /\ wTheta' = [wTheta EXCEPT ![i + 1] = @ + 1, ![i + 2] = @ + 1]
    /\ wOmega' = [wOmega EXCEPT ![i + 1] = @ + 1, ![i + 2] = @ + 1]
    /\ i' = i + 1
    /\ lastOp' = "step"
    /\ UNCHANGED <<pendulums, pathVertices, pc, events, ticks, run, tipLog,
                   pre>>

\* LoopLast storing the defaults L2 = M2 = 0.0f it computed for the missing
\* partner into the last segment.
LoopLastStoresDefaults ==
    /\ pc = "physics"
    /\ Len(pendulums) >= 2
    /\ i < Len(pendulums)
    /\ ~(i + 1 < Len(pendulums))
    /\ pendulums' = [pendulums EXCEPT ![i + 1] = [x |-> 0, y |-> 0]]
    /\ i' = i + 1
    /\ lastOp' = "step"
    /\ UNCHANGED <<theta, omega, pathVertices, pc, events, ticks, run,
                   tipLog, pre, wTheta, wOmega>>

\* The pass of the for loop at i = pendulums.size() - 1: the if is false.
LoopLast ==
    /\ pc = "physics"
    /\ Len(pendulums) >= 2
    /\ i < Len(pendulums)
    /\ ~(i + 1 < Len(pendulums))
    /\ i' = i + 1
    /\ lastOp' = "step"
    /\ UNCHANGED <<pendulums, theta, omega, pathVertices, pc, events, ticks,
                   run, tipLog, pre, wTheta, wOmega>>

\* The for loop is over: the trail update that ends the call.
MultiPath ==
    /\ pc = "physics"
    /\ Len(pendulums) >= 2
    /\ ~(i < Len(pendulums))
    /\ IF pendulums # <<>>
       THEN LET p == ChainTip(theta, pendulums)
            IN  /\ pathVertices' = PushPoint(pathVertices, p)
                /\ tipLog' = Append(tipLog, p)
       ELSE UNCHANGED <<pathVertices, tipLog>>
    /\ pc' = "render"
    /\ i' = 0
    /\ ticks' = ticks + 1
    /\ run' = run + 1
    /\ lastOp' = "append"
    /\ UNCHANGED <<pendulums, theta, omega, events, pre, wTheta, wOmega>>

\* ------------------------------------------------------------------------
\* render() and glfwSwapBuffers()
\* ------------------------------------------------------------------------

\* render reads pendulums, theta and pathVertices and writes none of them.
Render ==
    /\ pc = "render"
    /\ pc' = "poll"
    /\ lastOp' = "render"
    /\ UNCHANGED <<pendulums, theta, omega, pathVertices, i, events, ticks,
                   run, tipLog, pre, wTheta, wOmega>>

\* ------------------------------------------------------------------------
\* mouseButtonCallback(), called by glfwPollEvents()
\* ------------------------------------------------------------------------

\* InPoll with the events also dispatched before render.
InPollOrRender == pc \in {"poll", "render"} /\ events < MaxEvents

\* GLFW runs the callbacks of the pending events inside glfwPollEvents.
InPoll == pc = "poll" /\ events < MaxEvents

\* NewTheta as initialize() sets the first segment's angle.
NewThetaAsFirst == Div(M_PI, Scale)

\* The angle and the velocity a new segment starts with.
NewTheta == Div(M_PI, 4 * Scale)
NewOmega == 0 * Scale

\* The vectors after a left press.
AppendSegment(pend, th, om) ==
    IF pend # <<>>
    THEN [pendulums |-> Append(pend, [x |-> INITIAL_LENGTH, y |-> INITIAL_MASS]),
          theta |-> Append(th, NewTheta),
          omega |-> Append(om, NewOmega)]
    ELSE [pendulums |-> pend, theta |-> th, omega |-> om]

Front(q) == SubSeq(q, 1, Len(q) - 1)

\* RemoveSegment without the guard size() > 1.
RemoveSegmentNoGuard(pend, th, om, path) ==
    [pendulums |-> Front(pend), theta |-> Front(th), omega |-> Front(om),
     pathVertices |-> path]

\* RemoveSegment clearing the trail on every right press.
RemoveSegmentAlwaysClears(pend, th, om, path) ==
    IF Len(pend) > 1
    THEN [pendulums |-> Front(pend), theta |-> Front(th), omega |-> Front(om),
          pathVertices |-> <<>>]
    ELSE [pendulums |-> pend, theta |-> th, omega |-> om, pathVertices |-> <<>>]

\* The vectors and the trail after a right press.
RemoveSegment(pend, th, om, path) ==
    IF Len(pend) > 1
    THEN [pendulums |-> Front(pend), theta |-> Front(th), omega |-> Front(om),
          pathVertices |-> path]
    ELSE IF Len(pend) = 1
    THEN [pendulums |-> pend, theta |-> th, omega |-> om, pathVertices |-> <<>>]
    ELSE [pendulums |-> pend, theta |-> th, omega |-> om, pathVertices |-> path]

\* button == GLFW_MOUSE_BUTTON_LEFT && action == GLFW_PRESS
LeftPress ==
    /\ InPoll
    /\ Len(pendulums) < MaxSegments
    /\ LET u == AppendSegment(pendulums, theta, omega)
       IN  /\ pendulums' = u.pendulums
           /\ theta' = u.theta
           /\ omega' = u.omega
    /\ events' = events + 1
    /\ lastOp' = "left"
    /\ run' = 0
    /\ UNCHANGED <<pathVertices, pc, i, ticks, tipLog, pre, wTheta, wOmega>>

\* button == GLFW_MOUSE_BUTTON_RIGHT && action == GLFW_PRESS
RightPress ==
    /\ InPoll
    /\ LET u == RemoveSegment(pendulums, theta, omega, pathVertices)
       IN  /\ pendulums' = u.pendulums
           /\ theta' = u.theta
           /\ omega' = u.omega
           /\ pathVertices' = u.pathVertices
    /\ events' = events + 1
    /\ lastOp' = "right"
    /\ run' = 0
    /\ UNCHANGED <<pc, i, ticks, tipLog, pre, wTheta, wOmega>>

\* Any other button or action: neither branch of the callback is taken.
OtherEvent ==
    /\ InPoll
    /\ events' = events + 1
    /\ lastOp' = "other"
    /\ UNCHANGED <<pendulums, theta, omega, pathVertices, pc, i, ticks, run,
                   tipLog, pre, wTheta, wOmega>>

\* ------------------------------------------------------------------------
\* main(): while (!glfwWindowShouldClose(window)) { ... }
\* ------------------------------------------------------------------------

\* glfwPollEvents returns and the window stays open: the next frame starts.
NextFrame ==
    /\ pc = "poll"
    /\ ticks < MaxTicks
    /\ pc' = "physics"
    /\ events' = 0
    /\ lastOp' = "poll"
    /\ pre' = [theta |-> theta, omega |-> omega]
    /\ wTheta' = [k \in 1..Len(theta) |-> 0]
    /\ wOmega' = [k \in 1..Len(omega) |-> 0]
    /\ UNCHANGED <<pendulums, theta, omega, pathVertices, i, ticks, run,
                   tipLog>>

\* glfwPollEvents returns and the window is to close: the loop ends.
Close ==
    /\ pc = "poll"
    /\ pc' = "done"
    /\ UNCHANGED <<pendulums, theta, omega, pathVertices, i, events, ticks,
                   lastOp, run, tipLog, pre, wTheta, wOmega>>

Next ==
    \/ SingleStep
    \/ SinglePath
    \/ LoopPair
    \/ LoopLast
    \/ MultiPath
    \/ Render
    \/ LeftPress
    \/ RightPress
    \/ OtherEvent
    \/ NextFrame
    \/ Close

Spec == Init /\ [][Next]_vars

\* ------------------------------------------------------------------------
\* Properties
\* ------------------------------------------------------------------------

\* The steps of a behaviour, told apart by what they record.
AppendStep == lastOp' = "append" /\ ticks' = ticks + 1
LeftStep == lastOp' = "left" /\ events' = events + 1
RightStep == lastOp' = "right" /\ events' = events + 1

\* The trail as a sequence of points.
Points(path) == [k \in 1..(Len(path) \div 2) |-> <<path[2 * k - 1], path[2 * k]>>]

\* The last n elements of q.
LastN(q, n) == SubSeq(q, Len(q) - n + 1, Len(q))

FirstSegment == [x |-> INITIAL_LENGTH, y |-> INITIAL_MASS]

\* C1: in every reachable state the three parallel vectors have the same
\* length, that length is at least 1, and the first segment is the one
\* initialize() created.
C1_SizesAgree ==
    /\ Len(pendulums) = Len(theta)
    /\ Len(theta) = Len(omega)
    /\ Len(pendulums) >= 1
    /\ pendulums[1] = FirstSegment

\* A right press on the one-segment chain has just returned, after ticks
\* and edits.
C1_Witness ==
    /\ lastOp = "right"
    /\ Len(pendulums) = 1
    /\ ticks >= 2
    /\ tipLog # <<>>
    /\ pathVertices = <<>>

\* C2: the trail never holds more than PATH_LIMIT points, and a tick that
\* finds it at PATH_LIMIT points erases exactly its first point and pushes
\* the new one behind the rest.
C2_TrailBounded ==
    /\ [](Len(pathVertices) % 2 = 0 /\ Len(pathVertices) \div 2 <= PATH_LIMIT)
    /\ [][(AppendStep /\ Len(pathVertices) \div 2 = PATH_LIMIT)
          => /\ Len(pathVertices') = Len(pathVertices)
             /\ SubSeq(pathVertices', 1, Len(pathVertices) - 2)
                  = SubSeq(pathVertices, 3, Len(pathVertices))
             /\ LastN(Points(pathVertices'), 1) = LastN(tipLog', 1)]_vars

\* A tick has just evicted a point: the trail was full before it.
C2_Witness ==
    /\ lastOp = "append"
    /\ run > PATH_LIMIT
    /\ Len(pathVertices) \div 2 = PATH_LIMIT

\* C3: after PATH_LIMIT + EXTRA_TICKS consecutive ticks the trail holds
\* exactly PATH_LIMIT points, the ones the last PATH_LIMIT ticks pushed, in
\* the order they were pushed.
C3_TrailAfterRun ==
    run >= PATH_LIMIT + EXTRA_TICKS
        => /\ Len(pathVertices) = 2 * PATH_LIMIT
           /\ Points(pathVertices) = LastN(tipLog, PATH_LIMIT)

\* Such a run has just ended on a chain of several segments, whose tips all
\* differ.
C3_Witness ==
    /\ run = PATH_LIMIT + EXTRA_TICKS
    /\ Len(pendulums) >= 2
    /\ \A a, b \in 1..Len(tipLog) : a # b => tipLog[a] # tipLog[b]

\* C4: a right press on a one-segment chain leaves the segment, its angle
\* and its velocity as they were and empties the trail; on a longer chain
\* it removes the last element of each vector, leaves the others as they
\* were and leaves the trail alone.
C4_RemoveFrame ==
    [][RightStep =>
        IF Len(pendulums) = 1
        THEN /\ pendulums' = pendulums
             /\ theta' = theta
             /\ omega' = omega
             /\ pathVertices' = <<>>
        ELSE /\ Len(pendulums') = Len(pendulums) - 1
             /\ Len(theta') = Len(theta) - 1
             /\ Len(omega') = Len(omega) - 1
             /\ \A k \in 1..(Len(pendulums) - 1) :
                    /\ pendulums'[k] = pendulums[k]
                    /\ theta'[k] = theta[k]
                    /\ omega'[k] = omega[k]
             /\ pathVertices' = pathVertices]_vars

\* A right press has just removed a segment and the trail still holds points.
C4_Witness ==
    /\ lastOp = "right"
    /\ Len(pendulums) >= 2
    /\ pathVertices # <<>>

\* C5: a left press on a chain of n segments yields n + 1 in all three
\* vectors, the new last segment with theta = pi/4, omega = 0, length 0.7
\* and mass 1.0, the n others as they were, and the trail as it was.
C5_AppendFrame ==
    [][LeftStep =>
        LET n == Len(pendulums)
        IN  /\ Len(pendulums') = n + 1
            /\ Len(theta') = n + 1
            /\ Len(omega') = n + 1
            /\ theta'[n + 1] = Div(M_PI, 4 * Scale)
            /\ omega'[n + 1] = 0
            /\ pendulums'[n + 1].x = (7 * Scale) \div 10
            /\ pendulums'[n + 1].y = Scale
            /\ \A k \in 1..n :
                   /\ pendulums'[k] = pendulums[k]
                   /\ theta'[k] = theta[k]
                   /\ omega'[k] = omega[k]
            /\ pathVertices' = pathVertices]_vars

\* A left press has just extended a chain that has moved and left a trail.
C5_Witness ==
    /\ lastOp = "left"
    /\ Len(pendulums) = MaxSegments
    /\ pathVertices # <<>>
    /\ theta[1] # Div(M_PI, Scale)

Edits == {"left", "right"}
Callbacks == {"left", "right", "other"}

\* C6: the operations follow one another in the order edits, step, trail
\* append, render, edits, ...: an edit runs only after a render and before
\* the next step, a step starts only after initialize() or a poll, the trail
\* append follows the step, and render runs only right after the trail
\* append, so it never sees an edit that no step and trail append followed.
C6_FrameOrder ==
    [][/\ (LeftStep \/ RightStep) => (pc = "poll" /\ lastOp \in Callbacks \cup {"render"})
       /\ (pendulums' # pendulums \/ Len(pathVertices') < Len(pathVertices) - 2)
            => (pc = "poll" /\ lastOp \in Callbacks \cup {"render"})
       /\ (lastOp' = "step" /\ lastOp # "step")
            => (lastOp \in {"init", "poll"} /\ pre = [theta |-> theta, omega |-> omega])
       /\ (lastOp = "step") => lastOp' \in {"step", "append"}
       /\ AppendStep => lastOp = "step"
       /\ (lastOp = "append") => lastOp' = "render"
       /\ (lastOp' = "render" /\ lastOp # "render") => (pc = "render" /\ lastOp = "append")
       /\ (lastOp \in Edits) => lastOp' \in Callbacks \cup {"poll"}]_vars

\* render has just run on a chain that an earlier edit extended.
C6_Witness ==
    /\ lastOp = "render"
    /\ Len(pendulums) >= 2
    /\ ticks >= 2

\* The tips of the segments 1 .. n by the forward recurrence from the anchor
\* (0, 0.5): each tip is the one before it plus the segment's offset.
TipPositions(pend, th) ==
    LET tip[k \in 0..Len(pend)] ==
            IF k = 0 THEN <<0, Scale \div 2>>
            ELSE <<tip[k - 1][1] + Mul(pend[k].x, sin(th[k])),
                   tip[k - 1][2] - Mul(pend[k].x, cos(th[k]))>>
    IN  [k \in 1..Len(pend) |-> tip[k]]

TerminalTip(pend, th) == TipPositions(pend, th)[Len(pend)]

\* C7: every tick pushes exactly one point onto the trail, the tip of the
\* last segment computed from the angles the step left; no other step adds
\* a point.
C7_TerminalTipOnly ==
    [][/\ AppendStep =>
            /\ pc \in {"physics", "single_path"}
            /\ \E kept \in {pathVertices, SubSeq(pathVertices, 3, Len(pathVertices))} :
                   pathVertices' = kept \o TerminalTip(pendulums', theta')
            /\ tipLog' = Append(tipLog, TerminalTip(pendulums', theta'))
            /\ theta' = theta
       /\ (pc \in {"physics", "single_path"} /\ pc' = "render") => AppendStep
       /\ ~AppendStep => (pathVertices' = pathVertices \/ pathVertices' = <<>>)]_vars

\* A tick has just pushed the tip of a chain of three or more segments whose
\* tips are all different points, after the step moved the chain.
C7_Witness ==
    /\ lastOp = "append"
    /\ Len(pendulums) >= 3
    /\ theta # pre.theta
    /\ LET t == TipPositions(pendulums, theta)
       IN  /\ \A k \in 1..(Len(pendulums) - 1) : t[k] # t[Len(pendulums)]
           /\ LastN(Points(pathVertices), 1) = <<t[Len(pendulums)]>>

\* theta and omega after the pairs (0, 1) .. (n - 1, n) of the source have
\* been updated one after the other, each from what the one before left.
RECURSIVE PairsInOrder(_, _, _, _)
PairsInOrder(th, om, pend, n) ==
    IF n = 0 THEN [theta |-> th, omega |-> om]
    ELSE LET s == PairsInOrder(th, om, pend, n - 1)
             acc == PairAccel(s.theta[n], s.theta[n + 1], s.omega[n], s.omega[n + 1],
                              pend[n].x, pend[n].y, pend[n + 1].x, pend[n + 1].y)
             o1 == s.omega[n] + Mul(acc.a1, dt)
             o2 == s.omega[n + 1] + Mul(acc.a2, dt)
         IN  [theta |-> [s.theta EXCEPT ![n] = @ + Mul(o1, dt), ![n + 1] = @ + Mul(o2, dt)],
              omega |-> [s.omega EXCEPT ![n] = o1, ![n + 1] = o2]]

\* Writes per index of a step on n >= 2 segments.
WritesOfStep(n) == [k \in 1..n |-> IF k = 1 \/ k = n THEN 1 ELSE 2]

\* C8: a step on count >= 2 segments updates the pairs (i, i + 1) in
\* ascending order for i = 0 .. count - 2 and nothing else, the pass at
\* i = count - 1 writing nothing: the first and the last index are written
\* once, the others twice, and each pair starts from what the pair before
\* it wrote.  A step on one segment runs the single branch only.
C8_PairwiseSweep ==
    /\ [](pc = "render" =>
            IF Len(pendulums) >= 2
            THEN /\ wTheta = WritesOfStep(Len(pendulums))
                 /\ wOmega = WritesOfStep(Len(pendulums))
                 /\ [theta |-> theta, omega |-> omega]
                      = PairsInOrder(pre.theta, pre.omega, pendulums, Len(pendulums) - 1)
            ELSE /\ wTheta = <<1>>
                 /\ wOmega = <<1>>
                 /\ omega[1] = pre.omega[1] + Mul(SingleAccel(pre.theta[1], pendulums[1].x), dt)
                 /\ theta[1] = pre.theta[1] + Mul(omega[1], dt))
    /\ [][(pc = "physics" /\ Len(pendulums) >= 2 /\ pc' = "physics") =>
            /\ i' = i + 1
            /\ i <= Len(pendulums) - 1
            /\ \A k \in 1..Len(pendulums) :
                   /\ (theta'[k] # theta[k] \/ omega'[k] # omega[k] \/ wTheta'[k] # wTheta[k]
                         \/ wOmega'[k] # wOmega[k])
                        => (k \in {i + 1, i + 2} /\ i <= Len(pendulums) - 2)
                   /\ (k \in {i + 1, i + 2} /\ i <= Len(pendulums) - 2)
                        => (wTheta'[k] = wTheta[k] + 1 /\ wOmega'[k] = wOmega[k] + 1)]_vars
    /\ [][(pc = "physics" /\ Len(pendulums) < 2) => (pc' = "single_path" /\ i' = i)]_vars

\* A step on three or more segments has ended, and its result is not the
\* one of a sweep in which each pair starts from the values the step found.
C8_Witness ==
    /\ pc = "render"
    /\ Len(pendulums) >= 3
    /\ wTheta[2] = 2
    /\ LET a == PairAccel(pre.theta[2], pre.theta[3], pre.omega[2], pre.omega[3],
                          pendulums[2].x, pendulums[2].y, pendulums[3].x, pendulums[3].y)
       IN  pre.omega[2] + Mul(a.a1, dt) # omega[2]

\* C9: a step updates the velocity first and moves the angle by the new
\* velocity.  One segment: omega' = omega + a * dt with a from the angle the
\* step found, theta' = theta + omega' * dt.  A pair: a1 and a2 from the
\* values the pass found, then both omegas, then each theta by its new omega.
C9_VelocityFirst ==
    [][/\ (pc = "physics" /\ pc' = "single_path") =>
            /\ omega'[1] = omega[1] + Mul(SingleAccel(theta[1], pendulums[1].x), dt)
            /\ theta'[1] = theta[1] + Mul(omega'[1], dt)
       /\ (pc = "physics" /\ Len(pendulums) >= 2 /\ i + 1 < Len(pendulums) /\ i' = i + 1) =>
            LET acc == PairAccel(theta[i + 1], theta[i + 2], omega[i + 1], omega[i + 2],
                                 pendulums[i + 1].x, pendulums[i + 1].y,
                                 pendulums[i + 2].x, pendulums[i + 2].y)
            IN  /\ omega'[i + 1] = omega[i + 1] + Mul(acc.a1, dt)
                /\ omega'[i + 2] = omega[i + 2] + Mul(acc.a2, dt)
                /\ theta'[i + 1] = theta[i + 1] + Mul(omega'[i + 1], dt)
                /\ theta'[i + 2] = theta[i + 2] + Mul(omega'[i + 2], dt)]_vars

\* The first pair of a step has just been updated, and the old and the new
\* velocity of its first segment move the angle by different amounts.
C9_Witness ==
    /\ pc = "physics"
    /\ Len(pendulums) >= 2
    /\ i = 1
    /\ Mul(omega[1], dt) # Mul(pre.omega[1], dt)
    /\ theta[1] = pre.theta[1] + Mul(omega[1], dt)

Min(a, b) == IF a < b THEN a ELSE b

\* C10: no step of computePhysics changes pendulums or the length of theta
\* or omega; no step at all changes the length or the mass of a segment it
\* keeps; the number of segments changes only in an edit.
C10_SegmentsFixed ==
    [][/\ (pc \in {"physics", "single_path"}) =>
            /\ pendulums' = pendulums
            /\ Len(theta') = Len(theta)
            /\ Len(omega') = Len(omega)
       /\ \A k \in 1..Min(Len(pendulums), Len(pendulums')) : pendulums'[k] = pendulums[k]
       /\ (Len(pendulums') # Len(pendulums) \/ Len(theta') # Len(theta)
             \/ Len(omega') # Len(omega))
            => (LeftStep \/ RightStep)]_vars

\* A step has moved a chain of several segments and pushed a point, and the
\* segments are the ones the edits created.
C10_Witness ==
    /\ lastOp = "append"
    /\ Len(pendulums) >= 2
    /\ theta # pre.theta
    /\ omega # pre.omega
    /\ \A k \in 1..Len(pendulums) : pendulums[k] = FirstSegment

=============================================================================
